---- MODULE Spec2Model ----
(***************************************************************************)
(* Model of packages/utils/src/internals/cheerio.ts: htmlToText and        *)
(* extractUrlsFromCheerio.                                                 *)
(*                                                                         *)
(* A JavaScript string is a sequence of one-character strings, so that     *)
(* the regular expressions of the source are computed character by         *)
(* character.  `undefined` is the one-element sequence Undefined, which    *)
(* no string equals.                                                       *)
(***************************************************************************)
EXTENDS Integers, Sequences, FiniteSets, TLC

VARIABLES
    \* ---- htmlToText ----
    doc,        \* the parsed tree below the start node: node id -> node
    stack,      \* the active calls of process(): <<[elems, i], ...>>
    text,       \* `let text` of htmlToText
    origin,     \* for each character of text, the branch that appended it
    visited,    \* the nodes read by `const elem = elems[i]`, in order
    tpc,        \* "walk" | "done"
    output,     \* the value htmlToText returns
    \* ---- extractUrlsFromCheerio ----
    base,       \* $('base').attr('href')
    attrs,      \* $(el).attr('href') of each element matching the selector
    baseUrlArg, \* the caller-supplied baseUrl
    baseUrl,    \* the parameter baseUrl, reassigned at line 101
    memo,       \* what tryAbsoluteURL has returned so far: {[ref, base, res]}
    calls,      \* the per-link calls of tryAbsoluteURL: <<[ref, base], ...>>
    hrefs,      \* the array after .get().filter(Boolean)
    mapped,     \* the array the second .map() has built so far
    lpc,        \* "start" | "collect" | "map" | "returned" | "thrown" | "idle"
    result,     \* the returned array
    errorHref   \* the href the thrown error names

tvars == <<doc, stack, text, origin, visited, tpc, output>>
lvars == <<base, attrs, baseUrlArg, baseUrl, memo, calls, hrefs, mapped, lpc,
           result, errorHref>>
vars == <<tvars, lvars>>

Undefined == <<"undefined">>

\* ------------------------------------------------------------ bounds
MaxNodes == 3
MaxLinks == 3

\* ------------------------------------------------------------ strings
\* the characters \s matches, among those the model's payloads use
IsWhitespace(c) == c \in {" ", "\t", "\n"}

\* s.startsWith(' ')
StartsWithSpace(s) == Len(s) > 0 /\ s[1] = " "

\* s.substring(1)
Substring1(s) == IF Len(s) = 0 THEN <<>> ELSE Tail(s)

\* s.endsWith('\n')
EndsWithNewline(s) == Len(s) > 0 /\ s[Len(s)] = "\n"

\* /(^|\s)$/.test(s)
EmptyOrEndsWithWhitespace(s) == Len(s) = 0 \/ IsWhitespace(s[Len(s)])

\* /(^|\n)$/.test(s)
EmptyOrEndsWithNewline(s) == Len(s) = 0 \/ s[Len(s)] = "\n"

RECURSIVE DropWhitespace(_)
DropWhitespace(s) ==
    IF Len(s) > 0 /\ IsWhitespace(Head(s)) THEN DropWhitespace(Tail(s)) ELSE s

\* s.replace(/\s+/g, ' ')
RECURSIVE CompressSpaces(_)
CompressSpaces(s) ==
    IF Len(s) = 0 THEN <<>>
    ELSE IF IsWhitespace(Head(s))
         THEN <<" ">> \o CompressSpaces(DropWhitespace(Tail(s)))
         ELSE <<Head(s)>> \o CompressSpaces(Tail(s))

RECURSIVE DropTrailingWhitespace(_)
DropTrailingWhitespace(s) ==
    IF Len(s) > 0 /\ IsWhitespace(s[Len(s)])
    THEN DropTrailingWhitespace(SubSeq(s, 1, Len(s) - 1))
    ELSE s

\* a slip: only the leading whitespace is removed
Trim_LeadingOnly(s) == DropWhitespace(s)

\* s.trim()
Trim(s) == DropTrailingWhitespace(DropWhitespace(s))

\* ------------------------------------------------------------ tags
SKIP_TAGS == {"script", "style", "canvas", "svg", "noscript"}

BLOCK_TAGS == {"p", "h1", "h2", "h3", "h4", "h5", "h6", "ol", "ul", "li", "pre",
               "address", "blockquote", "dl", "div", "fieldset", "form", "table",
               "tr", "select", "option"}

\* ------------------------------------------------------------ documents
\* A node is [type, tagName, data, parent]; parent 0 is the start node.
\* Node ids follow document order (a node's id exceeds its parent's and
\* the ids of everything before it).
StartNode == [type |-> "tag", tagName |-> "body", data |-> <<>>, parent |-> 0]

TextNode(d) == [type |-> "text", tagName |-> "", data |-> d]
CommentNode == [type |-> "comment", tagName |-> "", data |-> <<"c">>]
Element(t) == [type |-> "tag", tagName |-> t, data |-> <<>>]

Payloads == { <<" ", "a">>, <<"a", " ", " ">>, <<" ", "\n">> }
Tags == {"script", "br", "td", "div", "pre", "span"}

Labels == {TextNode(d) : d \in Payloads} \cup {CommentNode}
              \cup {Element(t) : t \in Tags}

\* only an element other than the void element br has children
CanHaveChildren(l) == l.type = "tag" /\ l.tagName # "br"

RECURSIVE AncestorsOrSelf(_, _)
AncestorsOrSelf(par, j) ==
    IF j = 0 THEN {0} ELSE {j} \cup AncestorsOrSelf(par, par[j])

Shapes(n) ==
    { par \in [1..n -> 0..(n - 1)] :
        \A i \in 1..n : par[i] \in AncestorsOrSelf(par, i - 1) }

MakeDoc(n, par, lab) ==
    [i \in 1..n |-> [type |-> lab[i].type, tagName |-> lab[i].tagName,
                     data |-> lab[i].data, parent |-> par[i]]]

\* '<table><tr><td>A</td><td>B</td></tr></table>'
TableDoc ==
    MakeDoc(6, <<0, 1, 2, 3, 2, 5>>,
            <<Element("table"), Element("tr"), Element("td"), TextNode(<<"A">>),
              Element("td"), TextNode(<<"B">>)>>)

\* '<div><p>a</p></div><pre> a  </pre>'
NestedDoc ==
    MakeDoc(5, <<0, 1, 2, 0, 4>>,
            <<Element("div"), Element("p"), TextNode(<<"a">>),
              Element("pre"), TextNode(<<" ", "a", " ", " ">>)>>)

Node(d, n) == IF n = 0 THEN StartNode ELSE d[n]

\* elem.children, in order
Children(d, n) ==
    SelectSeq([i \in 1..Len(d) |-> i], LAMBDA i : d[i].parent = n)

\* ------------------------------------------------------------ htmlToText
\* SKIP_TAGS_REGEX.test(elem.tagName), BLOCK_TAGS_REGEX.test(elem.tagName)
IsSkipTag(t) == t \in SKIP_TAGS
IsBlockTag(t) == t \in BLOCK_TAGS

\* a slip: the skip set is not consulted
IsSkipped_CommentsOnly(e) == e.type = "comment"

\* elem.type === 'comment' || SKIP_TAGS_REGEX.test(elem.tagName)
IsSkipped(e) == e.type = "comment" \/ IsSkipTag(e.tagName)

\* elem.parent && elem.parent.tagName === 'pre'
InsidePre(d, e) == Node(d, e.parent).tagName = "pre"

\* Compress spaces, unless we're inside <pre> element
Compressed(d, e) == IF InsidePre(d, e) THEN e.data ELSE CompressSpaces(e.data)

\* a slip: the leading space is dropped only after a line break
StripLeading_NewlineOnly(compr, t) ==
    IF StartsWithSpace(compr) /\ EmptyOrEndsWithNewline(t)
    THEN Substring1(compr) ELSE compr

\* a slip: the leading space is never dropped
StripLeading_Never(compr, t) == compr

\* If text is empty or ends with a whitespace, don't add the leading whitespace
StripLeading(compr, t) ==
    IF StartsWithSpace(compr) /\ EmptyOrEndsWithWhitespace(t)
    THEN Substring1(compr) ELSE compr

\* isBlockTag && !/(^|\n)$/.test(text)
NewlineBefore(e, t) == IsBlockTag(e.tagName) /\ ~EmptyOrEndsWithNewline(t)

\* a slip: the closing line break is appended unconditionally
NewlineAfter_Always(e, t) == IsBlockTag(e.tagName)

\* isBlockTag && !text.endsWith('\n')
NewlineAfter(e, t) == IsBlockTag(e.tagName) /\ ~EndsWithNewline(t)

Top == stack[Len(stack)]
Caller == stack[Len(stack) - 1]
InLoop == tpc = "walk" /\ Top.i <= Len(Top.elems)
ElemId == Top.elems[Top.i]
Elem == Node(doc, ElemId)
CallerElem == Node(doc, Caller.elems[Caller.i])

\* i++ in the frame at position k of the stack
Advance(s, k) == [s EXCEPT ![k].i = @ + 1]

\* text += chars, remembering which branch appended them
Emit(chars, why) ==
    /\ text' = text \o chars
    /\ origin' = origin \o [k \in 1..Len(chars) |-> why]

LinksIdle ==
    /\ base = Undefined /\ attrs = <<>> /\ baseUrlArg = <<>> /\ baseUrl = <<>>
    /\ memo = {} /\ calls = <<>> /\ hrefs = <<>> /\ mapped = <<>>
    /\ lpc = "idle" /\ result = Undefined /\ errorHref = Undefined

Documents ==
    { MakeDoc(n, par, lab) : <<n, par, lab>> \in
        { x \in UNION { {n} \X Shapes(n) \X [1..n -> Labels] : n \in 0..MaxNodes } :
            \A i \in 1..x[1] : x[2][i] = 0 \/ CanHaveChildren(x[3][x[2][i]]) } }
    \cup {TableDoc, NestedDoc}

\* process($body.length > 0 ? $body : $.root()) is about to run
InitText ==
    /\ doc \in Documents
    /\ stack = << [elems |-> <<0>>, i |-> 1] >>
    /\ text = <<>>
    /\ origin = <<>>
    /\ visited = <<>>
    /\ tpc = "walk"
    /\ output = Undefined
    /\ LinksIdle

ProcessText ==
    /\ InLoop
    /\ Elem.type = "text"
    /\ Emit(StripLeading(Compressed(doc, Elem), text), "text")
    /\ visited' = Append(visited, ElemId)
    /\ stack' = Advance(stack, Len(stack))
    /\ UNCHANGED <<doc, tpc, output, lvars>>

ProcessSkipped ==
    /\ InLoop
    /\ Elem.type # "text"
    /\ IsSkipped(Elem)
    /\ visited' = Append(visited, ElemId)
    /\ stack' = Advance(stack, Len(stack))
    /\ UNCHANGED <<doc, text, origin, tpc, output, lvars>>

ProcessBr ==
    /\ InLoop
    /\ Elem.type # "text"
    /\ ~IsSkipped(Elem)
    /\ Elem.tagName = "br"
    /\ Emit(<<"\n">>, "br")
    /\ visited' = Append(visited, ElemId)
    /\ stack' = Advance(stack, Len(stack))
    /\ UNCHANGED <<doc, tpc, output, lvars>>

\* the td branch up to its call process(elem.children)
EnterTd ==
    /\ InLoop
    /\ Elem.type # "text"
    /\ ~IsSkipped(Elem)
    /\ Elem.tagName = "td"
    /\ visited' = Append(visited, ElemId)
    /\ stack' = Append(stack, [elems |-> Children(doc, ElemId), i |-> 1])
    /\ UNCHANGED <<doc, text, origin, tpc, output, lvars>>

\* the last branch up to its call process(elem.children)
EnterElement ==
    /\ InLoop
    /\ Elem.type # "text"
    /\ ~IsSkipped(Elem)
    /\ Elem.tagName \notin {"br", "td"}
    /\ Emit(IF NewlineBefore(Elem, text) THEN <<"\n">> ELSE <<>>, "before")
    /\ visited' = Append(visited, ElemId)
    /\ stack' = Append(stack, [elems |-> Children(doc, ElemId), i |-> 1])
    /\ UNCHANGED <<doc, tpc, output, lvars>>

Returning == tpc = "walk" /\ Top.i > Len(Top.elems) /\ Len(stack) > 1

\* process(elem.children) returns into the td branch
LeaveTd ==
    /\ Returning
    /\ CallerElem.tagName = "td"
    /\ Emit(<<"\t">>, "td")
    /\ stack' = Advance(SubSeq(stack, 1, Len(stack) - 1), Len(stack) - 1)
    /\ UNCHANGED <<doc, visited, tpc, output, lvars>>

\* process(elem.children) returns into the last branch
LeaveElement ==
    /\ Returning
    /\ CallerElem.tagName # "td"
    /\ Emit(IF NewlineAfter(CallerElem, text) THEN <<"\n">> ELSE <<>>, "after")
    /\ stack' = Advance(SubSeq(stack, 1, Len(stack) - 1), Len(stack) - 1)
    /\ UNCHANGED <<doc, visited, tpc, output, lvars>>

\* return text.trim()
Finish ==
    /\ tpc = "walk"
    /\ Top.i > Len(Top.elems)
    /\ Len(stack) = 1
    /\ output' = Trim(text)
    /\ tpc' = "done"
    /\ UNCHANGED <<doc, stack, text, origin, visited, lvars>>

NextText ==
    \/ ProcessText
    \/ ProcessSkipped
    \/ ProcessBr
    \/ EnterTd
    \/ EnterElement
    \/ LeaveTd
    \/ LeaveElement
    \/ Finish

SpecText == InitText /\ [][NextText]_vars

\* ------------------------------------------------------------ claims: htmlToText
Ids == 1..Len(doc)
TextIds == {i \in Ids : doc[i].type = "text"}
TagIds(t) == {i \in Ids : doc[i].type = "tag" /\ doc[i].tagName = t}

RECURSIVE ProperAncestors(_)
ProperAncestors(n) ==
    IF n = 0 THEN {} ELSE {doc[n].parent} \cup ProperAncestors(doc[n].parent)

IsPrefix(s, t) == Len(s) <= Len(t) /\ s = SubSeq(t, 1, Len(s))

Contains(s, sub) ==
    \E k \in 0..(Len(s) - Len(sub)) : SubSeq(s, k + 1, k + Len(sub)) = sub

HasDoubleBreak(s) == Contains(s, <<"\n", "\n">>)

CountOrigin(why) == Cardinality({k \in 1..Len(origin) : origin[k] = why})

TextInPre == \E i \in TextIds : doc[i].parent # 0 /\ doc[doc[i].parent].tagName = "pre"

\* the payloads of all text nodes, concatenated in document order
RECURSIVE ConcatText(_)
ConcatText(n) ==
    IF n > Len(doc) THEN <<>>
    ELSE (IF doc[n].type = "text" THEN doc[n].data ELSE <<>>) \o ConcatText(n + 1)

NoBlockOrSkipElements ==
    \A i \in Ids : doc[i].type = "tag" =>
        ~IsBlockTag(doc[i].tagName) /\ ~IsSkipTag(doc[i].tagName)

\* C5: a line break forced by a block boundary is never appended right after
\* a line break (nor, before the content, to the empty text), so block
\* boundaries alone never produce two consecutive line breaks.
C5_NoDoubleBreakFromBlocks ==
    /\ \A k \in 1..Len(text) : origin[k] \in {"before", "after"} =>
          /\ text[k] = "\n"
          /\ k = 1 => origin[k] = "after"
          /\ k > 1 => text[k - 1] # "\n"
    /\ (TagIds("br") = {} /\ ~TextInPre) =>
          /\ ~HasDoubleBreak(text)
          /\ tpc = "done" => ~HasDoubleBreak(output)

C5_Witness ==
    /\ tpc = "done"
    /\ \E i \in Ids : /\ IsBlockTag(doc[i].tagName)
                      /\ doc[i].parent # 0
                      /\ IsBlockTag(doc[doc[i].parent].tagName)
                      /\ \E j \in TextIds : doc[j].parent = i
    /\ CountOrigin("after") = 1
    /\ TagIds("br") = {} /\ ~TextInPre

\* C6: a text node whose parent is pre appends exactly its raw payload; any
\* other text node appends its payload with every whitespace run collapsed
\* to one space (less the leading space the boundary rule drops).
C6_PreVerbatim ==
    [][(InLoop /\ Elem.type = "text") =>
          IF InsidePre(doc, Elem)
          THEN text' = text \o Elem.data
          ELSE \/ text' = text \o CompressSpaces(Elem.data)
               \/ text' = text \o Substring1(CompressSpaces(Elem.data))]_vars

\* C7 as stated: without block-set and skip-set elements the result is the
\* whitespace-collapsed (and trimmed) concatenation of all text payloads.
C7_CollapsedConcatenation ==
    (tpc = "done" /\ NoBlockOrSkipElements) =>
        output = Trim(CompressSpaces(ConcatText(1)))

\* C7 amended: the same, for documents that also hold no br and no td.
C7_CollapsedConcatenationInline ==
    (tpc = "done" /\ NoBlockOrSkipElements /\ TagIds("br") = {} /\ TagIds("td") = {}) =>
        output = Trim(CompressSpaces(ConcatText(1)))

C7_Witness ==
    /\ tpc = "done" /\ NoBlockOrSkipElements
    /\ TagIds("br") = {} /\ TagIds("td") = {}
    /\ \E i \in TagIds("span") : \E j \in TextIds : doc[j].parent = i
    /\ Cardinality(TextIds) >= 2
    /\ Len(output) >= 3

\* the nodes outside every comment and skip-set subtree, in document order
ExpectedVisits ==
    <<0>> \o SelectSeq([i \in Ids |-> i],
                       LAMBDA i : \A a \in ProperAncestors(i) :
                                     ~(Node(doc, a).type = "comment"
                                       \/ Node(doc, a).tagName \in SKIP_TAGS))

\* C8: a comment or skip-set element leaves the text as it was and nothing
\* below it is visited; every other node is visited once, in document order.
C8_SkipAndOrder ==
    /\ [](/\ IsPrefix(visited, ExpectedVisits)
          /\ tpc = "done" => visited = ExpectedVisits)
    /\ [][(InLoop /\ (Elem.type = "comment" \/ Elem.tagName \in SKIP_TAGS)) =>
             /\ text' = text
             /\ visited' = Append(visited, ElemId)
             /\ stack' = Advance(stack, Len(stack))]_vars

C8_Witness ==
    /\ tpc = "done"
    /\ \E i \in TagIds("script") : \E j \in Ids :
          /\ doc[j].parent = i
          /\ doc[j].type = "text"
          /\ \E k \in 1..Len(visited) : visited[k] > j
    /\ Len(visited) < Len(doc) + 1
    /\ Len(text) > 0

\* C9 as stated: the output for the table of two cells holds "A\tB" followed
\* by a line break.
C9_TableRowThenBreak ==
    (tpc = "done" /\ doc = TableDoc) => Contains(output, <<"A", "\t", "B", "\n">>)

\* C9 amended: every td finished appends one tab after its content; for the
\* table of two cells the accumulated text is "A\tB\t\n" and the output,
\* trimmed, is "A\tB".
C9_TableRowTrimmed ==
    /\ \A k \in 1..Len(text) : origin[k] = "td" => text[k] = "\t"
    /\ tpc = "done" =>
          CountOrigin("td") = Cardinality({k \in 1..Len(visited) :
                                             Node(doc, visited[k]).tagName = "td"})
    /\ (tpc = "done" /\ doc = TableDoc) =>
          /\ text = <<"A", "\t", "B", "\t", "\n">>
          /\ output = <<"A", "\t", "B">>

C9_Witness == tpc = "done" /\ doc = TableDoc /\ CountOrigin("td") = 2

\* C10: without text directly inside pre, the text never starts with a space
\* and never holds a space right after a whitespace character.
C10_NoSpaceAfterWhitespace ==
    ~TextInPre =>
        /\ ~StartsWithSpace(text)
        /\ \A k \in 2..Len(text) : text[k] = " " => ~IsWhitespace(text[k - 1])

C10_Witness ==
    /\ tpc = "done" /\ ~TextInPre
    /\ \E i \in TagIds("td") : \E j \in TextIds :
          /\ j > i /\ doc[j].parent = doc[i].parent
          /\ StartsWithSpace(doc[j].data)
    /\ \E k \in 2..Len(text) : origin[k] = "text" /\ text[k - 1] = "\t"

\* ------------------------------------------------------------ extractUrlsFromCheerio
Lower == {"a", "b", "c", "d", "e", "f", "g", "h", "i", "j", "k", "l", "m",
          "n", "o", "p", "q", "r", "s", "t", "u", "v", "w", "x", "y", "z"}
Digit == {"0", "1", "2", "3", "4", "5", "6", "7", "8", "9"}

\* [a-z0-9+.-]*: at the head of s
RECURSIVE SchemeTail(_)
SchemeTail(s) ==
    /\ Len(s) > 0
    /\ \/ Head(s) = ":"
       \/ Head(s) \in Lower \cup Digit \cup {"+", ".", "-"} /\ SchemeTail(Tail(s))

\* /^[a-z][a-z0-9+.-]*:/.test(href)
IsHrefAbsolute(href) ==
    Len(href) > 0 /\ Head(href) \in Lower /\ SchemeTail(Tail(href))

\* Boolean(v) for v a string or undefined
Truthy(v) == v # Undefined /\ v # <<>>

\* the values tryAbsoluteURL(href, b) may return: undefined, or an absolute
\* URL (the href itself or a normalised form when it has a scheme, the base
\* joined with it otherwise)
TryOutcomes(href, b) ==
    {Undefined}
    \cup (IF IsHrefAbsolute(href) THEN {href, href \o <<"/">>}
          ELSE IF b # <<>> THEN {b \o href} ELSE {})

\* r is what tryAbsoluteURL(href, b) returns: one of its outcomes, and the
\* same one as before for the same arguments
TryAbsoluteURL(href, b, r) ==
    /\ r \in TryOutcomes(href, b)
    /\ \A m \in memo : (m.ref = href /\ m.base = b) => m.res = r

Remember(href, b, r) == memo \cup {[ref |-> href, base |-> b, res |-> r]}

\* a slip: the override of the base element is ignored
EffectiveBase_Supplied(absoluteBaseUrl, b) == b

\* if (absoluteBaseUrl) { baseUrl = absoluteBaseUrl; }
EffectiveBase(absoluteBaseUrl, b) ==
    IF Truthy(absoluteBaseUrl) THEN absoluteBaseUrl ELSE b

\* .map((_i, el) => $(el).attr('href')).get(): undefined is left out
MapAttr(as) == SelectSeq(as, LAMBDA v : v # Undefined)

\* .filter(Boolean) on the hrefs read
FilterHrefs(s) == SelectSeq(s, Truthy)

\* a slip: the last filter is missing
FilterResolved_None(s) == s

\* .filter(Boolean) on the resolved values
FilterResolved(s) == SelectSeq(s, Truthy)

\* a slip: the test of isHrefAbsolute is inverted
ShouldThrow_Inverted(href, b) == IsHrefAbsolute(href) /\ ~Truthy(b)

\* !isHrefAbsolute && !baseUrl
ShouldThrow(href, b) == ~IsHrefAbsolute(href) /\ ~Truthy(b)

\* a slip: the href is resolved even without a base URL
UsesResolver_Always(b) == TRUE

\* baseUrl ? tryAbsoluteURL(href, baseUrl) : href
UsesResolver(b) == Truthy(b)

HrefValues == {Undefined, <<>>, <<"/", "x">>, <<"m", ":", "a">>,
               <<"h", "2", ":", "b">>, <<"H", ":", "a">>}
BaseValues == {Undefined, <<>>, <<"h", ":", "/", "o">>, <<"/", "o">>}
BaseUrlValues == {<<>>, <<"h", ":", "/", "b">>}

TextIdle ==
    /\ doc = <<>> /\ stack = <<>> /\ text = <<>> /\ origin = <<>>
    /\ visited = <<>> /\ tpc = "idle" /\ output = Undefined

InitLinks ==
    /\ base \in BaseValues
    /\ attrs \in UNION {[1..n -> HrefValues] : n \in 0..MaxLinks}
    /\ baseUrlArg \in BaseUrlValues
    /\ baseUrl = baseUrlArg
    /\ memo = {}
    /\ calls = <<>>
    /\ hrefs = <<>>
    /\ mapped = <<>>
    /\ lpc = "start"
    /\ result = Undefined
    /\ errorHref = Undefined
    /\ TextIdle

\* const absoluteBaseUrl = base && tryAbsoluteURL(base, baseUrl), with a base
ResolveBase ==
    /\ lpc = "start"
    /\ Truthy(base)
    /\ \E r \in TryOutcomes(base, baseUrl) :
          /\ TryAbsoluteURL(base, baseUrl, r)
          /\ memo' = Remember(base, baseUrl, r)
          /\ baseUrl' = EffectiveBase(r, baseUrl)
    /\ lpc' = "collect"
    /\ UNCHANGED <<base, attrs, baseUrlArg, calls, hrefs, mapped, result,
                   errorHref, tvars>>

\* the same lines when base is undefined or '': absoluteBaseUrl is falsy
NoBase ==
    /\ lpc = "start"
    /\ ~Truthy(base)
    /\ baseUrl' = EffectiveBase(base, baseUrl)
    /\ lpc' = "collect"
    /\ UNCHANGED <<base, attrs, baseUrlArg, memo, calls, hrefs, mapped, result,
                   errorHref, tvars>>

\* $(selector).map(...).get().filter(Boolean)
CollectHrefs ==
    /\ lpc = "collect"
    /\ hrefs' = FilterHrefs(MapAttr(attrs))
    /\ lpc' = "map"
    /\ UNCHANGED <<base, attrs, baseUrlArg, baseUrl, memo, calls, mapped,
                   result, errorHref, tvars>>

Mapping == lpc = "map" /\ Len(mapped) < Len(hrefs)
Href == hrefs[Len(mapped) + 1]

\* the callback of the second .map() throws
MapThrow ==
    /\ Mapping
    /\ ShouldThrow(Href, baseUrl)
    /\ errorHref' = Href
    /\ lpc' = "thrown"
    /\ UNCHANGED <<base, attrs, baseUrlArg, baseUrl, memo, calls, hrefs,
                   mapped, result, tvars>>

\* the callback returns tryAbsoluteURL(href, baseUrl)
MapResolve ==
    /\ Mapping
    /\ ~ShouldThrow(Href, baseUrl)
    /\ UsesResolver(baseUrl)
    /\ \E r \in TryOutcomes(Href, baseUrl) :
          /\ TryAbsoluteURL(Href, baseUrl, r)
          /\ memo' = Remember(Href, baseUrl, r)
          /\ mapped' = Append(mapped, r)
    /\ calls' = Append(calls, [ref |-> Href, base |-> baseUrl])
    /\ UNCHANGED <<base, attrs, baseUrlArg, baseUrl, hrefs, lpc, result,
                   errorHref, tvars>>

\* the callback returns href
MapKeep ==
    /\ Mapping
    /\ ~ShouldThrow(Href, baseUrl)
    /\ ~UsesResolver(baseUrl)
    /\ mapped' = Append(mapped, Href)
    /\ UNCHANGED <<base, attrs, baseUrlArg, baseUrl, memo, calls, hrefs, lpc,
                   result, errorHref, tvars>>

\* .filter(Boolean) as string[] and return
ReturnUrls ==
    /\ lpc = "map"
    /\ Len(mapped) = Len(hrefs)
    /\ result' = FilterResolved(mapped)
    /\ lpc' = "returned"
    /\ UNCHANGED <<base, attrs, baseUrlArg, baseUrl, memo, calls, hrefs,
                   mapped, errorHref, tvars>>

NextLinks ==
    \/ ResolveBase
    \/ NoBase
    \/ CollectHrefs
    \/ MapThrow
    \/ MapResolve
    \/ MapKeep
    \/ ReturnUrls

SpecLinks == InitLinks /\ [][NextLinks]_vars

\* ------------------------------------------------------------ claims: extractUrlsFromCheerio
Range(s) == {s[k] : k \in 1..Len(s)}

Ended == lpc \in {"returned", "thrown"}

\* what tryAbsoluteURL returned for (href, b)
Resolved(href, b) == (CHOOSE m \in memo : m.ref = href /\ m.base = b).res
WasResolved(href, b) == \E m \in memo : m.ref = href /\ m.base = b

\* the base the override rule yields, read from the inputs and the resolver
OverrideResolved ==
    /\ Truthy(base)
    /\ WasResolved(base, baseUrlArg)
    /\ Resolved(base, baseUrlArg) # Undefined
ExpectedBase == IF OverrideResolved THEN Resolved(base, baseUrlArg) ELSE baseUrlArg

\* a matched element whose href is non-empty and not absolute
Offending(k) == attrs[k] # Undefined /\ attrs[k] # <<>> /\ ~IsHrefAbsolute(attrs[k])
FirstOffending == CHOOSE k \in 1..Len(attrs) :
                     Offending(k) /\ \A j \in 1..(k - 1) : ~Offending(j)

\* C1 as stated: every matched href that begins with a URI scheme is in the
\* returned sequence as the same string, whatever the effective base.
C1_AbsolutePassesThrough ==
    lpc = "returned" =>
        \A k \in 1..Len(attrs) : IsHrefAbsolute(attrs[k]) => attrs[k] \in Range(result)

\* C1 amended: with an empty effective base the returned sequence is the
\* non-empty hrefs themselves; with a non-empty one each href that begins
\* with a scheme is replaced by what tryAbsoluteURL returned for it, and
\* left out when that is undefined.
C1_AbsoluteThroughResolver ==
    lpc = "returned" =>
        /\ baseUrl = <<>> =>
              result = SelectSeq(attrs, LAMBDA v : v # Undefined /\ v # <<>>)
        /\ baseUrl # <<>> =>
              \A k \in 1..Len(attrs) : IsHrefAbsolute(attrs[k]) =>
                  /\ WasResolved(attrs[k], baseUrl)
                  /\ Resolved(attrs[k], baseUrl) # Undefined
                        <=> Resolved(attrs[k], baseUrl) \in Range(result)
                  /\ attrs[k] \in Range(result)
                        => \E j \in 1..Len(attrs) :
                              /\ WasResolved(attrs[j], baseUrl)
                              /\ Resolved(attrs[j], baseUrl) = attrs[k]

C1_Witness ==
    /\ lpc = "returned"
    /\ baseUrl # <<>>
    /\ \E k \in 1..Len(attrs) :
          /\ IsHrefAbsolute(attrs[k])
          /\ Resolved(attrs[k], baseUrl) = attrs[k] \o <<"/">>
          /\ attrs[k] \notin Range(result)
    /\ \E k \in 1..Len(attrs) :
          /\ IsHrefAbsolute(attrs[k])
          /\ Resolved(attrs[k], baseUrl) = attrs[k]

\* C2: a non-empty, non-absolute href met without an effective base makes the
\* call end in the relative-URL error naming the first such href, wherever it
\* sits; nothing is returned.
C2_RelativeWithoutBaseThrows ==
    (/\ Ended
     /\ baseUrlArg = <<>>
     /\ ~OverrideResolved
     /\ \E k \in 1..Len(attrs) : Offending(k)) =>
        /\ lpc = "thrown"
        /\ result = Undefined
        /\ errorHref = attrs[FirstOffending]

C2_Witness ==
    /\ lpc = "thrown"
    /\ Len(mapped) = 2
    /\ FirstOffending = 3
    /\ attrs[3] = <<"/", "x">>
    /\ Truthy(base)

\* C3: a base element whose href resolves gives the base of every per-link
\* resolution; otherwise the supplied baseUrl is used unchanged, and a failed
\* override alone never makes the call throw.
C3_BaseOverride ==
    /\ lpc # "start" => baseUrl = ExpectedBase
    /\ \A k \in 1..Len(calls) : calls[k] = [ref |-> hrefs[k], base |-> ExpectedBase]
    /\ (lpc = "returned" /\ ExpectedBase # <<>>) => Len(calls) = Len(hrefs)
    /\ lpc = "thrown" =>
          /\ ExpectedBase = <<>>
          /\ \E k \in 1..Len(attrs) : Offending(k)

C3_Witness ==
    /\ lpc = "returned"
    /\ OverrideResolved
    /\ baseUrlArg # <<>>
    /\ baseUrl # baseUrlArg
    /\ \E k \in 1..Len(calls) : ~IsHrefAbsolute(calls[k].ref)
    /\ Len(result) >= 2

\* the result read off the matched elements, one at a time
RECURSIVE ExpectedUrls(_)
ExpectedUrls(k) ==
    IF k > Len(attrs) THEN <<>>
    ELSE LET h == attrs[k]
             r == IF ExpectedBase # <<>> THEN Resolved(h, ExpectedBase) ELSE h
         IN  IF h = Undefined \/ h = <<>> THEN ExpectedUrls(k + 1)
             ELSE IF r = Undefined \/ r = <<>> THEN ExpectedUrls(k + 1)
             ELSE <<r>> \o ExpectedUrls(k + 1)

\* C4: a normal return gives the resolved URLs of the matched elements in
\* document order, less the missing or empty hrefs and the falsy
\* resolutions; none of these ever raises.
C4_OrderedSubsequence ==
    /\ lpc = "returned" => result = ExpectedUrls(1)
    /\ lpc = "thrown" => \E k \in 1..Len(attrs) :
                            Offending(k) /\ errorHref = attrs[k] /\ baseUrl = <<>>

C4_Witness ==
    /\ lpc = "returned"
    /\ Len(attrs) = 3
    /\ attrs[1] \in {Undefined, <<>>}
    /\ baseUrl # <<>>
    /\ Truthy(attrs[2]) /\ Resolved(attrs[2], baseUrl) = Undefined
    /\ Truthy(attrs[3]) /\ result = <<Resolved(attrs[3], baseUrl)>>

====
